---- MODULE Spec2Model ----
(***************************************************************************)
(* Quote Forge server actions (src/src/actions/index.ts) over the two      *)
(* tables of src/db/tables.ts.  Every `await db...` is one atomic store    *)
(* statement; the code between two awaits runs with the statement that     *)
(* follows it.  Concurrent requests interleave at statement granularity.   *)
(***************************************************************************)
EXTENDS Integers, Sequences, FiniteSets, TLC

VARIABLES
    QuoteCollections,   \* table QuoteCollections: rows in insertion order
    Quotes,             \* table Quotes: rows in insertion order
    quoteUuids,         \* number of quote ids crypto.randomUUID() has issued
    calls,              \* number of requests received so far
    procs,              \* the requests in flight, one per request slot
    response            \* the response the last step delivered, if it delivered one

vars == <<QuoteCollections, Quotes, quoteUuids, calls, procs, response>>

----------------------------------------------------------------------------
(* Bounds *)

MaxCollections == 2     \* collections ever created
MaxQuotes == 2          \* quotes ever created
MaxCalls == 4           \* requests ever received
MaxSlots == 2           \* requests in flight at once

Slots == 1..MaxSlots

----------------------------------------------------------------------------
(* Values *)

\* An optional value: undefined, or <<v>> for the value v.
Undefined == <<>>
Some(v) == <<v>>

\* `const [x] = rows`: the first row, or undefined.
First(rows) == IF rows = <<>> THEN Undefined ELSE Some(rows[1])

Users == {"u1", "u2"}
\* context.locals.user: a signed-in user, or none.
Contexts == {Some(u) : u \in Users} \cup {Undefined}

\* The ids crypto.randomUUID() issues, in the order it issues them.
CollectionUuids == <<"c1", "c2", "c3", "c4">>
QuoteUuids == <<"q1", "q2", "q3", "q4">>

\* Ids a caller may send: the ids issued so far or later (an id not issued yet
\* names no row).
CollectionIdInputs == {CollectionUuids[i] : i \in 1..MaxCollections}
QuoteIdInputs == {QuoteUuids[i] : i \in 1..MaxQuotes}

CollectionPatchFields == {"name", "description", "icon", "isDefault"}
QuotePatchFields == {"text", "attributedTo", "mood", "tags", "language", "isFavorite", "isPublic"}

\* Optional input fields: none provided, some provided alone, all provided.
NoCollectionFields == [f \in CollectionPatchFields |-> Undefined]
AllCollectionFields ==
    [name |-> Some("m"), description |-> Some("p"), icon |-> Some("p"),
     isDefault |-> Some(TRUE)]
CollectionPatches ==
    {NoCollectionFields, AllCollectionFields, [NoCollectionFields EXCEPT !.name = Some("")]}
    \cup {[NoCollectionFields EXCEPT ![f] = AllCollectionFields[f]] : f \in {"name"}}

NoQuoteFields == [f \in QuotePatchFields |-> Undefined]
AllQuoteFields ==
    [text |-> Some("u"), attributedTo |-> Some("p"), mood |-> Some("p"),
     tags |-> Some("p"), language |-> Some("p"), isFavorite |-> Some(TRUE),
     isPublic |-> Some(FALSE)]
QuotePatches ==
    {NoQuoteFields, AllQuoteFields, [NoQuoteFields EXCEPT !.text = Some("")]}
    \cup {[NoQuoteFields EXCEPT ![f] = AllQuoteFields[f]] : f \in {"mood", "isFavorite"}}

\* Two records joined into one.
Merge(r, s) == [f \in DOMAIN r \cup DOMAIN s |-> IF f \in DOMAIN r THEN r[f] ELSE s[f]]

CreateCollectionInputs ==
    {[name |-> n, description |-> o.description, icon |-> o.icon, isDefault |-> o.isDefault] :
        n \in {"", "n"}, o \in {NoCollectionFields}}

UpdateCollectionInputs ==
    {Merge([id |-> id], patch) : id \in CollectionIdInputs, patch \in CollectionPatches}

QuoteOptionalFields == QuotePatchFields \ {"text"}
NoQuoteOptions == [f \in QuoteOptionalFields |-> Undefined]
QuoteOptions ==
    {NoQuoteOptions,
     [f \in QuoteOptionalFields |->
        IF f \in {"isFavorite", "isPublic"} THEN Some(TRUE) ELSE Some("s")]}

CreateQuoteInputs ==
    {Merge([collectionId |-> c, text |-> t], o) :
        c \in CollectionIdInputs, t \in {"", "t"}, o \in QuoteOptions}

UpdateQuoteInputs ==
    {Merge([id |-> id, collectionId |-> c], patch) :
        id \in QuoteIdInputs, c \in CollectionIdInputs, patch \in QuotePatches}

DeleteQuoteInputs == [id : QuoteIdInputs, collectionId : CollectionIdInputs]

ListQuotesInputs ==
    [collectionId : CollectionIdInputs, favoritesOnly : BOOLEAN, includePublic : BOOLEAN]

----------------------------------------------------------------------------
(* Result envelopes *)

Success(data) == [success |-> TRUE, data |-> data]
ActionError(code, message) == [success |-> FALSE, code |-> code, message |-> message]

Unauthorized == ActionError("UNAUTHORIZED", "You must be signed in to perform this action.")
CollectionNotFound == ActionError("NOT_FOUND", "Collection not found.")
QuoteNotFound == ActionError("NOT_FOUND", "Quote not found.")
\* defineAction rejects an input its schema does not accept.
ActionInputError == ActionError("BAD_REQUEST", "Failed to validate")

----------------------------------------------------------------------------
(* Store statements *)

\* db.select().from(table).where(P)
Select(table, P(_)) == SelectSeq(table, P)

\* db.update(table).set(Set).where(P): every matching row is rewritten in place.
Update(table, P(_), Set(_)) ==
    [i \in DOMAIN table |-> IF P(table[i]) THEN Set(table[i]) ELSE table[i]]

\* db.delete(table).where(P)
Delete(table, P(_)) == SelectSeq(table, LAMBDA r : ~P(r))

----------------------------------------------------------------------------
(* Input schemas (the `input:` of each defineAction) *)

createCollectionInput(input) == Len(input.name) >= 1

updateCollectionInput(input) ==
    /\ Len(input.id) >= 1
    /\ input.name # Undefined => Len(input.name[1]) >= 1
    /\ \/ input.name # Undefined
       \/ input.description # Undefined
       \/ input.icon # Undefined
       \/ input.isDefault # Undefined

createQuoteInput(input) ==
    /\ Len(input.collectionId) >= 1
    /\ Len(input.text) >= 1

\* An updateQuote schema without its .refine().
updateQuoteInputUnrefined(input) ==
    /\ Len(input.id) >= 1
    /\ Len(input.collectionId) >= 1

updateQuoteInput(input) ==
    /\ Len(input.id) >= 1
    /\ Len(input.collectionId) >= 1
    /\ \/ input.text # Undefined
       \/ input.attributedTo # Undefined
       \/ input.mood # Undefined
       \/ input.tags # Undefined
       \/ input.language # Undefined
       \/ input.isFavorite # Undefined
       \/ input.isPublic # Undefined

deleteQuoteInput(input) ==
    /\ Len(input.id) >= 1
    /\ Len(input.collectionId) >= 1

listQuotesInput(input) == Len(input.collectionId) >= 1

----------------------------------------------------------------------------
(* Helpers of the handlers *)

\* A requireUser that falls back to a fixed account when nobody is signed in.
requireUserOrGuest(context) == IF context = Undefined THEN Some("u1") ELSE context

\* The user of the request context; undefined makes the handler throw UNAUTHORIZED.
requireUser(context) == context

\* A guard that looks the collection up by id alone.
getCollectionOfAnyOwner(collectionId, userId) ==
    Select(QuoteCollections, LAMBDA c : c.id = collectionId)

\* The rows the guard's select returns; none makes the handler throw NOT_FOUND.
getOwnedCollection(collectionId, userId) ==
    Select(QuoteCollections, LAMBDA c : c.id = collectionId /\ c.userId = userId)

\* `x ?? false`
OrFalse(opt) == IF opt = Undefined THEN FALSE ELSE opt[1]

\* .values({...}) of createCollection
createCollectionValues(id, userId, input, now) ==
    [id |-> id, userId |-> userId, name |-> input.name,
     description |-> input.description, icon |-> input.icon,
     isDefault |-> OrFalse(input.isDefault), createdAt |-> now, updatedAt |-> now]

\* .set({...}) of updateCollection, applied to a row
updateCollectionSet(row, input, now) ==
    [row EXCEPT
        !.name = IF input.name # Undefined THEN input.name[1] ELSE @,
        !.description = IF input.description # Undefined THEN input.description ELSE @,
        !.icon = IF input.icon # Undefined THEN input.icon ELSE @,
        !.isDefault = IF input.isDefault # Undefined THEN input.isDefault[1] ELSE @,
        !.updatedAt = now]

\* Values that take the owner from the request's input instead of the session.
createQuoteValuesOwnerFromInput(id, userId, input, now) ==
    [id |-> id, collectionId |-> input.collectionId, userId |-> input.collectionId,
     text |-> input.text, attributedTo |-> input.attributedTo, mood |-> input.mood,
     tags |-> input.tags, language |-> input.language,
     isFavorite |-> OrFalse(input.isFavorite), isPublic |-> OrFalse(input.isPublic),
     createdAt |-> now, updatedAt |-> now]

\* .values({...}) of createQuote
createQuoteValues(id, userId, input, now) ==
    [id |-> id, collectionId |-> input.collectionId, userId |-> userId,
     text |-> input.text, attributedTo |-> input.attributedTo, mood |-> input.mood,
     tags |-> input.tags, language |-> input.language,
     isFavorite |-> OrFalse(input.isFavorite), isPublic |-> OrFalse(input.isPublic),
     createdAt |-> now, updatedAt |-> now]

\* A .set({...}) that writes every optional column of the input, provided or not.
updateQuoteSetOverwriting(row, input, now) ==
    [row EXCEPT
        !.text = IF input.text # Undefined THEN input.text[1] ELSE @,
        !.attributedTo = input.attributedTo,
        !.mood = input.mood,
        !.tags = input.tags,
        !.language = input.language,
        !.isFavorite = IF input.isFavorite # Undefined THEN input.isFavorite[1] ELSE @,
        !.isPublic = IF input.isPublic # Undefined THEN input.isPublic[1] ELSE @,
        !.updatedAt = now]

\* .set({...}) of updateQuote, applied to a row
updateQuoteSet(row, input, now) ==
    [row EXCEPT
        !.text = IF input.text # Undefined THEN input.text[1] ELSE @,
        !.attributedTo = IF input.attributedTo # Undefined THEN input.attributedTo ELSE @,
        !.mood = IF input.mood # Undefined THEN input.mood ELSE @,
        !.tags = IF input.tags # Undefined THEN input.tags ELSE @,
        !.language = IF input.language # Undefined THEN input.language ELSE @,
        !.isFavorite = IF input.isFavorite # Undefined THEN input.isFavorite[1] ELSE @,
        !.isPublic = IF input.isPublic # Undefined THEN input.isPublic[1] ELSE @,
        !.updatedAt = now]

\* A lookup of the existing quote by id alone.
existingWhereIdOnly(q, input) == q.id = input.id

\* The where clause of updateQuote's select of the existing quote
existingWhere(q, input) == q.id = input.id /\ q.collectionId = input.collectionId

\* The where clause of updateQuote's update
updateQuoteWhere(q, input) == q.id = input.id

\* A delete by id alone.
deleteQuoteWhereIdOnly(q, input) == q.id = input.id

\* The where clause of deleteQuote's delete
deleteQuoteWhere(q, input) == q.id = input.id /\ q.collectionId = input.collectionId

\* Filters in which includePublic = false hides the public quotes.
listQuotesFiltersHidingPublic(q, input, userId) ==
    /\ q.collectionId = input.collectionId
    /\ q.userId = userId
    /\ input.favoritesOnly => q.isFavorite = TRUE
    /\ ~input.includePublic => q.isPublic = FALSE

\* and(...filters) of listQuotes
listQuotesFilters(q, input, userId) ==
    /\ q.collectionId = input.collectionId
    /\ q.userId = userId
    /\ input.favoritesOnly => q.isFavorite = TRUE

\* The quotes listQuotes selects
listQuotesItems(input, userId) ==
    Select(Quotes, LAMBDA q : listQuotesFilters(q, input, userId))

\* new Date(): the clock ticks with every request received.
Now == calls

----------------------------------------------------------------------------
(* Requests *)

Idle == [pc |-> "idle", op |-> "none", context |-> Undefined, input |-> Undefined,
         existing |-> Undefined, dbCalls |-> 0]

\* A request whose handler waits for its next store statement.
Running(op, context, input, pc, dbCalls) ==
    [pc |-> pc, op |-> op, context |-> context, input |-> input,
     existing |-> Undefined, dbCalls |-> dbCalls]

\* What the caller of a finished request gets, with the request it answers and
\* the number of store statements the request executed.
Response(op, context, input, valid, dbCalls, result) ==
    [op |-> op, context |-> context, input |-> input, valid |-> valid,
     dbCalls |-> dbCalls, result |-> result]

NoResponse == Response("none", Undefined, Undefined, FALSE, 0, Undefined)

\* defineAction parses the input with the schema and only then runs the handler,
\* whose first statement is requireUser(context).
Refusal(context, valid) ==
    IF ~valid THEN ActionInputError
    ELSE IF requireUser(context) = Undefined THEN Unauthorized
    ELSE Undefined

\* The handler of slot p ends with `result` after one more store statement.
Finish(p, result) ==
    /\ response' = Response(procs[p].op, procs[p].context, procs[p].input, TRUE,
                            procs[p].dbCalls + 1, result)
    /\ procs' = [procs EXCEPT ![p] = Idle]

\* A request arrives and is served by the first free slot.
Receive(p) ==
    /\ procs[p].pc = "idle"
    /\ \A q \in Slots : q < p => procs[q].pc # "idle"
    /\ calls < MaxCalls
    /\ calls' = calls + 1

TypeOK ==
    /\ quoteUuids \in 0..MaxQuotes
    /\ calls \in 0..MaxCalls
    /\ Len(QuoteCollections) <= MaxCollections
    /\ Len(Quotes) <= MaxQuotes
    /\ \A p \in Slots : procs[p].pc \in {"idle", "guarded", "selected"}

Init ==
    /\ QuoteCollections = <<>>
    /\ Quotes = <<>>
    /\ quoteUuids = 0
    /\ calls = 0
    /\ procs = [p \in Slots |-> Idle]
    /\ response = NoResponse

----------------------------------------------------------------------------
(* createCollection *)

CreateCollection(p) ==
    /\ Receive(p)
    /\ \E context \in Contexts, input \in CreateCollectionInputs :
        LET valid == createCollectionInput(input)
            refusal == Refusal(context, valid) IN
        IF refusal # Undefined
        THEN /\ response' = Response("createCollection", context, input, valid, 0, refusal)
             /\ UNCHANGED QuoteCollections
        ELSE /\ Len(QuoteCollections) < MaxCollections
             /\ LET now == Now IN
                LET row == createCollectionValues(
                               CollectionUuids[Len(QuoteCollections) + 1],
                               requireUser(context)[1], input, now) IN
                /\ QuoteCollections' = Append(QuoteCollections, row)
                        /\ response' = Response("createCollection", context, input, TRUE, 1,
                                        Success([collection |-> Some(row)]))
    /\ UNCHANGED <<Quotes, quoteUuids, procs>>

(* listCollections *)

ListCollections(p) ==
    /\ Receive(p)
    /\ \E context \in Contexts :
        LET refusal == Refusal(context, TRUE) IN
        IF refusal # Undefined
        THEN response' = Response("listCollections", context, Undefined, TRUE, 0, refusal)
        ELSE LET collections ==
                     Select(QuoteCollections, LAMBDA c : c.userId = requireUser(context)[1]) IN
             response' = Response("listCollections", context, Undefined, TRUE, 1,
                             Success([items |-> collections, total |-> Len(collections)]))
    /\ UNCHANGED <<QuoteCollections, Quotes, quoteUuids, procs>>

----------------------------------------------------------------------------
(* The first step of the five handlers that call getOwnedCollection, for the
   request that slot p has just received *)

Guard(p, op, context, input, valid, collectionId) ==
    /\ LET refusal == Refusal(context, valid) IN
       IF refusal # Undefined
       THEN /\ response' = Response(op, context, input, valid, 0, refusal)
            /\ UNCHANGED procs
       ELSE IF getOwnedCollection(collectionId, requireUser(context)[1]) = <<>>
            THEN /\ response' = Response(op, context, input, TRUE, 1, CollectionNotFound)
                 /\ UNCHANGED procs
            ELSE /\ procs' = [procs EXCEPT ![p] = Running(op, context, input, "guarded", 1)]
                 /\ response' = NoResponse
    /\ UNCHANGED <<QuoteCollections, Quotes, quoteUuids>>

Guarded(p, op) == procs[p].pc = "guarded" /\ procs[p].op = op

----------------------------------------------------------------------------
(* updateCollection *)

UpdateCollectionGuard(p) ==
    /\ Receive(p)
    /\ \E context \in Contexts, input \in UpdateCollectionInputs :
        Guard(p, "updateCollection", context, input, updateCollectionInput(input), input.id)

UpdateCollectionUpdate(p) ==
    /\ Guarded(p, "updateCollection")
    /\ LET now == Now IN
        LET input == procs[p].input
            matches(c) == c.id = input.id
            set(c) == updateCollectionSet(c, input, now) IN
        /\ QuoteCollections' = Update(QuoteCollections, matches, set)
        /\ Finish(p, Success([collection |-> First(Select(QuoteCollections', matches))]))
    /\ UNCHANGED <<Quotes, quoteUuids, calls>>

----------------------------------------------------------------------------
(* createQuote *)

CreateQuoteGuard(p) ==
    /\ Receive(p)
    /\ \E context \in Contexts, input \in CreateQuoteInputs :
        Guard(p, "createQuote", context, input, createQuoteInput(input), input.collectionId)

CreateQuoteInsert(p) ==
    /\ Guarded(p, "createQuote")
    /\ quoteUuids < MaxQuotes
    /\ LET now == Now IN
        LET row == createQuoteValues(QuoteUuids[quoteUuids + 1],
                                     requireUser(procs[p].context)[1], procs[p].input, now) IN
        /\ Quotes' = Append(Quotes, row)
        /\ quoteUuids' = quoteUuids + 1
        /\ Finish(p, Success([quote |-> Some(row)]))
    /\ UNCHANGED <<QuoteCollections, calls>>

----------------------------------------------------------------------------
(* updateQuote *)

UpdateQuoteGuard(p) ==
    /\ Receive(p)
    /\ \E context \in Contexts, input \in UpdateQuoteInputs :
        Guard(p, "updateQuote", context, input, updateQuoteInput(input), input.collectionId)

UpdateQuoteSelect(p) ==
    /\ Guarded(p, "updateQuote")
    /\ LET existing == First(Select(Quotes,
                           LAMBDA q : existingWhere(q, procs[p].input))) IN
       IF existing = Undefined
       THEN Finish(p, QuoteNotFound)
       ELSE /\ procs' = [procs EXCEPT ![p].pc = "selected", ![p].existing = existing,
                                      ![p].dbCalls = @ + 1]
            /\ response' = NoResponse
    /\ UNCHANGED <<QuoteCollections, Quotes, quoteUuids, calls>>

UpdateQuoteUpdate(p) ==
    /\ procs[p].pc = "selected"
    /\ LET now == Now IN
        LET input == procs[p].input
            matches(q) == updateQuoteWhere(q, input)
            set(q) == updateQuoteSet(q, input, now) IN
        /\ Quotes' = Update(Quotes, matches, set)
        /\ Finish(p, Success([quote |-> First(Select(Quotes', matches))]))
    /\ UNCHANGED <<QuoteCollections, quoteUuids, calls>>

----------------------------------------------------------------------------
(* deleteQuote *)

DeleteQuoteGuard(p) ==
    /\ Receive(p)
    /\ \E context \in Contexts, input \in DeleteQuoteInputs :
        Guard(p, "deleteQuote", context, input, deleteQuoteInput(input), input.collectionId)

DeleteQuoteDelete(p) ==
    /\ Guarded(p, "deleteQuote")
    /\ LET matches(q) == deleteQuoteWhere(q, procs[p].input)
           rowsAffected == Len(Select(Quotes, matches)) IN
        /\ Quotes' = Delete(Quotes, matches)
        /\ Finish(p, IF rowsAffected = 0 THEN QuoteNotFound ELSE Success(Undefined))
    /\ UNCHANGED <<QuoteCollections, quoteUuids, calls>>

----------------------------------------------------------------------------
(* listQuotes *)

ListQuotesGuard(p) ==
    /\ Receive(p)
    /\ \E context \in Contexts, input \in ListQuotesInputs :
        Guard(p, "listQuotes", context, input, listQuotesInput(input), input.collectionId)

ListQuotesSelect(p) ==
    /\ Guarded(p, "listQuotes")
    /\ LET quotes == listQuotesItems(procs[p].input, requireUser(procs[p].context)[1]) IN
       Finish(p, Success([items |-> quotes, total |-> Len(quotes)]))
    /\ UNCHANGED <<QuoteCollections, Quotes, quoteUuids, calls>>

----------------------------------------------------------------------------

Next ==
    \E p \in Slots :
        \/ CreateCollection(p)
        \/ ListCollections(p)
        \/ UpdateCollectionGuard(p)
        \/ UpdateCollectionUpdate(p)
        \/ CreateQuoteGuard(p)
        \/ CreateQuoteInsert(p)
        \/ UpdateQuoteGuard(p)
        \/ UpdateQuoteSelect(p)
        \/ UpdateQuoteUpdate(p)
        \/ DeleteQuoteGuard(p)
        \/ DeleteQuoteDelete(p)
        \/ ListQuotesGuard(p)
        \/ ListQuotesSelect(p)

Spec == Init /\ [][Next]_vars

----------------------------------------------------------------------------
(* Vocabulary of the properties *)

Rows(table) == {table[i] : i \in DOMAIN table}

GuardedOps == {"updateCollection", "createQuote", "updateQuote", "deleteQuote", "listQuotes"}

\* The collection id a request refers to.
CollectionIdOf(op, input) == IF op = "updateCollection" THEN input.id ELSE input.collectionId

\* User u owns a collection with this id.
Owns(u, collectionId) ==
    \E c \in Rows(QuoteCollections) : c.id = collectionId /\ c.userId = u

\* A collection with this id exists.
Exists(collectionId) == \E c \in Rows(QuoteCollections) : c.id = collectionId

\* This step receives a request; response' answers it unless its handler goes on.
Received == calls' = calls + 1

\* This step runs the first statement of a request that slot p goes on serving.
Admits(p) == procs[p].pc = "idle" /\ procs'[p].pc = "guarded"

\* This step runs a later statement of the request in slot p.
Continues(p) == procs[p].pc # "idle" /\ procs'[p] # procs[p]

TablesUnchanged == QuoteCollections' = QuoteCollections /\ Quotes' = Quotes

\* No patchable field of an update request is provided.
NothingToPatch(op, input) ==
    \/ op = "updateCollection" /\ \A f \in CollectionPatchFields : input[f] = Undefined
    \/ op = "updateQuote" /\ \A f \in QuotePatchFields : input[f] = Undefined

----------------------------------------------------------------------------
\* C1: a valid call of updateCollection, createQuote, updateQuote, deleteQuote or
\* listQuotes by a signed-in user who does not own the referenced collection
\* fails with NOT_FOUND "Collection not found.", whether the collection belongs
\* to somebody else or does not exist, and leaves both tables unchanged; no such
\* call gets past the guard.
C1_Step ==
    /\ \A p \in Slots :
        Admits(p) =>
            Owns(procs'[p].context[1], CollectionIdOf(procs'[p].op, procs'[p].input))
    /\ ( /\ Received
         /\ response'.op \in GuardedOps
         /\ response'.valid
         /\ response'.context # Undefined
         /\ ~Owns(response'.context[1], CollectionIdOf(response'.op, response'.input)) )
       => /\ response'.result = CollectionNotFound
          /\ TablesUnchanged

C1_NotOwnedIsNotFound == [][C1_Step]_vars

\* A signed-in user got "Collection not found." for a collection of another user.
C1_Witness ==
    /\ response.op \in GuardedOps
    /\ response.context # Undefined
    /\ response.result = CollectionNotFound
    /\ Exists(CollectionIdOf(response.op, response.input))

----------------------------------------------------------------------------
\* C2 as stated: every call without a user identity fails with UNAUTHORIZED,
\* whatever its input.
C2_AlwaysUnauthorized ==
    (response.op # "none" /\ response.context = Undefined)
        => response.result = Unauthorized

\* C2, amended: a call without a user identity whose input passes the schema
\* fails with UNAUTHORIZED, one whose input the schema rejects fails with the
\* validation error; either way no store statement runs, both tables are
\* unchanged, and no request without identity gets past its first step.
C2_Step ==
    /\ \A p \in Slots : procs'[p].pc # "idle" => procs'[p].context # Undefined
    /\ (Received /\ response'.op # "none" /\ response'.context = Undefined)
       => /\ response'.result = IF response'.valid THEN Unauthorized ELSE ActionInputError
          /\ response'.dbCalls = 0
          /\ TablesUnchanged

C2_UnauthorizedAfterValidation == [][C2_Step]_vars

\* An anonymous updateQuote with an acceptable input, refused while quotes exist.
C2_Witness ==
    /\ response.op = "updateQuote"
    /\ response.context = Undefined
    /\ response.valid
    /\ response.result = Unauthorized
    /\ Quotes # <<>>

----------------------------------------------------------------------------
\* C3: an updateCollection or updateQuote call that provides no patchable field
\* fails with the validation error before any store statement runs, whoever
\* owns the referenced collection and whether or not it exists; both tables are
\* unchanged and no such request gets past its first step.
C3_Step ==
    /\ \A p \in Slots :
        procs'[p].pc # "idle" => ~NothingToPatch(procs'[p].op, procs'[p].input)
    /\ (Received /\ NothingToPatch(response'.op, response'.input))
       => /\ response'.result = ActionInputError
          /\ response'.dbCalls = 0
          /\ TablesUnchanged

C3_EmptyPatchFailsValidation == [][C3_Step]_vars

\* An empty updateQuote by the owner of the collection and of the quote it names.
C3_Witness ==
    /\ response.op = "updateQuote"
    /\ NothingToPatch(response.op, response.input)
    /\ response.result = ActionInputError
    /\ response.context # Undefined
    /\ \E q \in Rows(Quotes) :
        /\ q.id = response.input.id
        /\ q.collectionId = response.input.collectionId
        /\ q.userId = response.context[1]

----------------------------------------------------------------------------
\* The value a provided input field stores in its column.
Stored(f, provided) ==
    IF f \in {"text", "isFavorite", "isPublic"} THEN provided[1] ELSE provided

ImmutableQuoteFields == {"id", "collectionId", "userId", "createdAt"}

\* C4: the update statement of updateQuote changes, on the quote it matches,
\* exactly the provided fields (to the provided values) and updatedAt; fields
\* not provided keep their values; no other quote and no collection changes.
\* No step of any request changes id, collectionId, userId or createdAt of a
\* stored quote.
C4_Step ==
    /\ \A p \in Slots :
        (procs[p].pc = "selected" /\ Continues(p)) =>
            LET input == procs[p].input IN
            /\ QuoteCollections' = QuoteCollections
            /\ DOMAIN Quotes' = DOMAIN Quotes
            /\ \A i \in DOMAIN Quotes :
                IF Quotes[i].id = input.id
                THEN /\ \A f \in QuotePatchFields :
                            Quotes'[i][f] = IF input[f] # Undefined
                                            THEN Stored(f, input[f])
                                            ELSE Quotes[i][f]
                     /\ \A f \in ImmutableQuoteFields : Quotes'[i][f] = Quotes[i][f]
                     /\ Quotes'[i].updatedAt = Now
                     /\ response'.result = Success([quote |-> Some(Quotes'[i])])
                ELSE Quotes'[i] = Quotes[i]
    /\ \A q \in Rows(Quotes), r \in Rows(Quotes') :
        q.id = r.id => \A f \in ImmutableQuoteFields : q[f] = r[f]

C4_PartialUpdate == [][C4_Step]_vars

\* A mood-only update succeeded on a quote created with all its metadata: the
\* mood is the new one, the other metadata are those of the creation.
C4_Witness ==
    /\ response.op = "updateQuote"
    /\ response.result.success
    /\ response.input.mood = Some("p")
    /\ response.input.attributedTo = Undefined
    /\ \E q \in Rows(Quotes) :
        /\ q.id = response.input.id
        /\ q.mood = Some("p")
        /\ q.attributedTo = Some("s")
        /\ q.tags = Some("s")
        /\ q.isFavorite
        /\ q.updatedAt > q.createdAt

----------------------------------------------------------------------------
\* The user on whose behalf this step runs a store statement in slot p.
Actor(p) == procs[p].context[1]

\* C5: no statement run for user B changes or removes a collection or a quote
\* owned by another user, and a valid updateQuote or deleteQuote of B that names
\* a stored quote of another user fails with NOT_FOUND, whatever collectionId B
\* supplies.
C5_Step ==
    /\ \A p \in Slots :
        Continues(p) =>
            /\ \A q \in Rows(Quotes) : q.userId # Actor(p) => q \in Rows(Quotes')
            /\ \A c \in Rows(QuoteCollections) :
                c.userId # Actor(p) => c \in Rows(QuoteCollections')
    /\ Received =>
        /\ Rows(Quotes) \subseteq Rows(Quotes')
        /\ Rows(QuoteCollections) \subseteq Rows(QuoteCollections')
    /\ ( /\ response'.op \in {"updateQuote", "deleteQuote"}
         /\ response'.valid
         /\ response'.context # Undefined
         /\ \E q \in Rows(Quotes) :
                q.id = response'.input.id /\ q.userId # response'.context[1] )
       => /\ ~response'.result.success
          /\ response'.result.code = "NOT_FOUND"

C5_NoCrossUserWrite == [][C5_Step]_vars

\* User B passed the guard with a collection of its own and was refused the
\* update of a quote of user A.
C5_Witness ==
    /\ response.op = "updateQuote"
    /\ response.result = QuoteNotFound
    /\ Owns(response.context[1], response.input.collectionId)
    /\ \E q \in Rows(Quotes) :
        q.id = response.input.id /\ q.userId # response.context[1]

----------------------------------------------------------------------------
\* The (id, collectionId) pair of the input names a stored quote.
PairMatches(input) ==
    \E q \in Rows(Quotes) : q.id = input.id /\ q.collectionId = input.collectionId

\* The id of the input names a quote stored under another collection.
StoredElsewhere(input) ==
    \E q \in Rows(Quotes) : q.id = input.id /\ q.collectionId # input.collectionId

\* C6: a deleteQuote or updateQuote that got past the guard and names a quote
\* stored under another collection than the one it states fails with NOT_FOUND
\* "Quote not found." and leaves every row intact; these two operations change
\* the table only when the (id, collectionId) pair matches a stored quote.
C6_Step ==
    \A p \in Slots :
        (Continues(p) /\ procs[p].op \in {"updateQuote", "deleteQuote"}) =>
            /\ StoredElsewhere(procs[p].input) =>
                /\ response'.result = QuoteNotFound
                /\ TablesUnchanged
            /\ ~PairMatches(procs[p].input) => TablesUnchanged

C6_PairMustMatch == [][C6_Step]_vars

\* The caller owns two collections and was refused the deletion of its quote
\* under the collection that does not hold it; the quote is still stored.
C6_Witness ==
    /\ response.op = "deleteQuote"
    /\ response.result = QuoteNotFound
    /\ Owns(response.context[1], response.input.collectionId)
    /\ \E q \in Rows(Quotes) :
        /\ q.id = response.input.id
        /\ q.collectionId # response.input.collectionId
        /\ q.userId = response.context[1]

----------------------------------------------------------------------------
ListInput(collectionId, favoritesOnly, includePublic) ==
    [collectionId |-> collectionId, favoritesOnly |-> favoritesOnly,
     includePublic |-> includePublic]

IsFavorite(q) == q.isFavorite = TRUE

\* What listQuotes answers in this state to the owner of a collection.
Listing(c, favoritesOnly, includePublic) ==
    listQuotesItems(ListInput(c.id, favoritesOnly, includePublic), c.userId)

\* The listings of every owned collection agree as C7 says.
C7_Listings ==
    \A c \in Rows(QuoteCollections) :
        /\ Listing(c, TRUE, FALSE) = SelectSeq(Listing(c, FALSE, FALSE), IsFavorite)
        /\ \A favoritesOnly \in BOOLEAN :
            Listing(c, favoritesOnly, TRUE) = Listing(c, favoritesOnly, FALSE)

\* C7: in every reachable state and for every owned collection, listQuotes with
\* favoritesOnly = true returns exactly the favorite items of the default
\* listing, includePublic never changes the result, a listQuotes response
\* carries the listing of its input with total equal to the number of items,
\* and the select of listQuotes modifies no row.
C7_Step ==
    /\ C7_Listings'
    /\ \A p \in Slots :
        (Continues(p) /\ procs[p].op = "listQuotes") =>
            /\ TablesUnchanged
            /\ response'.result.success
            /\ response'.result.data.items =
                   listQuotesItems(procs[p].input, procs[p].context[1])
            /\ response'.result.data.total = Len(response'.result.data.items)
            /\ response'.result.data.items =
                   SelectSeq(listQuotesItems(ListInput(procs[p].input.collectionId, FALSE, FALSE),
                                             procs[p].context[1]),
                             LAMBDA q : procs[p].input.favoritesOnly => IsFavorite(q))

C7_FavoritesAreTheFavoriteItems == [][C7_Step]_vars

\* A collection holds a favorite public quote and another quote, and the
\* favorites-only listing without includePublic just returned the first alone.
C7_Witness ==
    /\ response.op = "listQuotes"
    /\ response.input.favoritesOnly
    /\ ~response.input.includePublic
    /\ response.result.success
    /\ response.result.data.total = 1
    /\ response.result.data.items[1].isPublic
    /\ Cardinality({q \in Rows(Quotes) :
                       q.collectionId = response.input.collectionId}) = 2

----------------------------------------------------------------------------
\* C8: in every reachable state, every stored quote references an existing
\* collection and has the userId of that collection.
C8_QuoteOwnerIsCollectionOwner ==
    \A q \in Rows(Quotes) :
        \E c \in Rows(QuoteCollections) : c.id = q.collectionId /\ c.userId = q.userId

\* Collections of two users exist and a createQuote just inserted its quote
\* while another request was in flight.
C8_Witness ==
    /\ \E c, d \in Rows(QuoteCollections) : c.userId # d.userId
    /\ response.op = "createQuote"
    /\ response.result.success
    /\ \E p \in Slots : procs[p].pc # "idle"

----------------------------------------------------------------------------
\* C9: an updateQuote that answers success has updated a quote row: the response
\* carries the row, with the provided fields applied.
C9_SuccessHasUpdatedRow ==
    (response.op = "updateQuote" /\ response.result.success) =>
        /\ response.result.data.quote # Undefined
        /\ \A f \in QuotePatchFields :
            response.input[f] # Undefined =>
                response.result.data.quote[1][f] = Stored(f, response.input[f])

----------------------------------------------------------------------------
\* C10: in every reachable state, every stored quote has a non-empty text.
C10_TextNonEmpty == \A q \in Rows(Quotes) : Len(q.text) >= 1

====
